---- MODULE Spec2Model ----
(***************************************************************************)
(* Model of asr_evaluation.ASREvaluation: detect_word_error,               *)
(* track_confusions and get_confusions, together with the opcodes of the   *)
(* edit_distance.SequenceMatcher the class aligns its token lists with.    *)
(*                                                                         *)
(* Python lists are sequences; indices in opcodes are Python's (0-based,   *)
(* half-open), so seq[k] of the code is seq[k + 1] here.  A defaultdict    *)
(* is the sequence of its items in insertion order (the order .items()     *)
(* yields), each item a record [key, count].                               *)
(***************************************************************************)
EXTENDS Integers, Sequences, FiniteSets, TLC

VARIABLES insertion_table, deletion_table, substitution_table, min_count,
          result, ref_line, hyp_line, case_insensitive, remove_empty_refs,
          seq1, seq2, opcodes, pc, dirty

vars == <<insertion_table, deletion_table, substitution_table, min_count,
          result, ref_line, hyp_line, case_insensitive, remove_empty_refs,
          seq1, seq2, opcodes, pc, dirty>>

(***************************************************************************)
(* Bounds                                                                  *)
(***************************************************************************)
MaxSeqLen == 2

MaxMinCount == 2

MaxCount == 2

MaxAlignLen == 3

MaxLineLen == 3

MaxCallLen == 1

\* the words of the reference and of the hypothesis token lists
RefWords == {"a", "b"}

HypWords == {"a", "c", "d"}

SeqsUpTo(S, n) == UNION {[1..k -> S] : k \in 0..n}

Range(s) == {s[k] : k \in 1..Len(s)}

(***************************************************************************)
(* defaultdict(int) tables                                                 *)
(***************************************************************************)
EmptyTable == <<>>

HasKey(table, key) == \E k \in 1..Len(table) : table[k].key = key

KeyIndex(table, key) == CHOOSE k \in 1..Len(table) : table[k].key = key

\* table[key], without the insertion a defaultdict read makes
Count(table, key) == IF HasKey(table, key) THEN table[KeyIndex(table, key)].count ELSE 0

\* table[key] += 1
Increment(table, key) ==
    IF HasKey(table, key)
    THEN [table EXCEPT ![KeyIndex(table, key)].count = @ + 1]
    ELSE Append(table, [key |-> key, count |-> 1])

(***************************************************************************)
(* track_confusions                                                        *)
(***************************************************************************)
\* for i in range(j1, j2): insertion_table[seq2[i]] += 1
RECURSIVE insert_loop(_, _, _, _)
insert_loop(table, hyp, j1, j2) ==
    IF j1 >= j2 THEN table
    ELSE insert_loop(Increment(table, hyp[j1 + 1]), hyp, j1 + 1, j2)

\* for i in range(i1, i2): deletion_table[seq1[i]] += 1
RECURSIVE delete_loop(_, _, _, _)
delete_loop(table, ref, i1, i2) ==
    IF i1 >= i2 THEN table
    ELSE delete_loop(Increment(table, ref[i1 + 1]), ref, i1 + 1, i2)

\* seq[a:b] for 0 <= a <= b <= len(seq)
Slice(seq, a, b) == SubSeq(seq, a + 1, b)

\* for w2 in seq2[j1:j2]: substitution_table[(w1, w2)] += 1
RECURSIVE replace_inner(_, _, _)
replace_inner(table, w1, ws2) ==
    IF ws2 = <<>> THEN table
    ELSE replace_inner(Increment(table, <<w1, Head(ws2)>>), w1, Tail(ws2))

\* the positional pairing of the two spans, in place of their cross product
RECURSIVE replace_zip(_, _, _)
replace_zip(table, ws1, ws2) ==
    IF ws1 = <<>> \/ ws2 = <<>> THEN table
    ELSE replace_zip(Increment(table, <<Head(ws1), Head(ws2)>>), Tail(ws1), Tail(ws2))

\* for w1 in seq1[i1:i2]: for w2 in seq2[j1:j2]: ...
RECURSIVE replace_loop(_, _, _)
replace_loop(table, ws1, ws2) ==
    IF ws1 = <<>> THEN table
    ELSE replace_loop(replace_inner(table, Head(ws1), ws2), Tail(ws1), ws2)

Tables(ins, del, sub) == [insertion |-> ins, deletion |-> del, substitution |-> sub]

\* an insert op counted against the reference range it has none of
track_op_ref(t, op, ref, hyp) ==
    IF op[1] = "insert"
    THEN [t EXCEPT !.insertion = insert_loop(@, ref, op[2], op[3])]
    ELSE IF op[1] = "delete"
    THEN [t EXCEPT !.deletion = delete_loop(@, ref, op[2], op[3])]
    ELSE IF op[1] = "replace"
    THEN [t EXCEPT !.substitution =
              replace_loop(@, Slice(ref, op[2], op[3]), Slice(hyp, op[4], op[5]))]
    ELSE t

\* one iteration of the loop over the opcodes: op = <<tag, i1, i2, j1, j2>>
track_op(t, op, ref, hyp) ==
    IF op[1] = "insert"
    THEN [t EXCEPT !.insertion = insert_loop(@, hyp, op[4], op[5])]
    ELSE IF op[1] = "delete"
    THEN [t EXCEPT !.deletion = delete_loop(@, ref, op[2], op[3])]
    ELSE IF op[1] = "replace"
    THEN [t EXCEPT !.substitution =
              replace_loop(@, Slice(ref, op[2], op[3]), Slice(hyp, op[4], op[5]))]
    ELSE t

RECURSIVE track_confusions(_, _, _, _)
track_confusions(t, ops, ref, hyp) ==
    IF ops = <<>> THEN t
    ELSE track_confusions(track_op(t, Head(ops), ref, hyp), Tail(ops), ref, hyp)

(***************************************************************************)
(* get_confusions                                                          *)
(***************************************************************************)
\* where a stable descending sort puts an item that follows all of `sorted`
RECURSIVE sort_place(_, _)
sort_place(sorted, item) ==
    IF sorted = <<>> THEN <<item>>
    ELSE IF Head(sorted).count >= item.count
    THEN <<Head(sorted)>> \o sort_place(Tail(sorted), item)
    ELSE <<item>> \o sorted

\* sorted(items, key=lambda x: x[1], reverse=True)
RECURSIVE sorted_by_count(_)
sorted_by_count(items) ==
    IF items = <<>> THEN <<>>
    ELSE sort_place(sorted_by_count(SubSeq(items, 1, Len(items) - 1)), items[Len(items)])

\* the threshold test dropped
keep_all(items, minc) == items

RECURSIVE keep_min_count(_, _)
keep_min_count(items, minc) ==
    IF items = <<>> THEN <<>>
    ELSE IF Head(items).count >= minc
    THEN <<Head(items)>> \o keep_min_count(Tail(items), minc)
    ELSE keep_min_count(Tail(items), minc)

word_entry(item) == [word |-> item.key, count |-> item.count]

pair_entry(item) ==
    [word_reference |-> item.key[1], word_substitution |-> item.key[2], count |-> item.count]

word_list(table, minc) ==
    IF Len(table) > 0
    THEN LET kept == keep_min_count(sorted_by_count(table), minc)
         IN [k \in 1..Len(kept) |-> word_entry(kept[k])]
    ELSE <<>>

pair_list(table, minc) ==
    IF Len(table) > 0
    THEN LET kept == keep_min_count(sorted_by_count(table), minc)
         IN [k \in 1..Len(kept) |-> pair_entry(kept[k])]
    ELSE <<>>

get_confusions(t, minc) ==
    [kind |-> "dict",
     insertion |-> word_list(t.insertion, minc),
     deletion |-> word_list(t.deletion, minc),
     substitution |-> pair_list(t.substitution, minc)]

(***************************************************************************)
(* edit_distance.SequenceMatcher(a, b).get_opcodes(): the dynamic program  *)
(* over unit costs with its backpointer table, one opcode per cell         *)
(***************************************************************************)
Min(a, b) == IF a <= b THEN a ELSE b

Max(a, b) == IF a >= b THEN a ELSE b

\* the diagonal taken in every cell, whatever it costs
diagonal_action(ic, dc, sc, cost) == IF cost = 0 THEN "equal" ELSE "replace"

\* the action of a cell, from the costs of reaching it by an insertion (ic),
\* a deletion (dc) and a substitution or match (sc)
lowest_cost_action(ic, dc, sc, cost) ==
    LET min_cost == Min(Min(ic, dc), sc)
    IN IF min_cost = sc /\ cost = 0 THEN "equal"
       ELSE IF min_cost = sc /\ cost = 1 THEN "replace"
       ELSE IF min_cost = ic THEN "insert"
       ELSE "delete"

\* cell (i, j) of the table: the distance of a[:i] to b[:j] and the backpointer
RECURSIVE dp_cell(_, _, _, _)
dp_cell(a, b, i, j) ==
    IF i = 0 /\ j = 0 THEN [d |-> 0, op |-> <<>>]
    ELSE IF i = 0 THEN [d |-> j, op |-> <<"insert", 0, 0, j - 1, j>>]
    ELSE IF j = 0 THEN [d |-> i, op |-> <<"delete", i - 1, i, 0, 0>>]
    ELSE LET cost == IF a[i] = b[j] THEN 0 ELSE 1
             ins_cost == dp_cell(a, b, i, j - 1).d + 1
             del_cost == dp_cell(a, b, i - 1, j).d + 1
             sub_cost == dp_cell(a, b, i - 1, j - 1).d + cost
             action == lowest_cost_action(ins_cost, del_cost, sub_cost, cost)
         IN IF action = "equal" THEN [d |-> sub_cost, op |-> <<"equal", i - 1, i, j - 1, j>>]
            ELSE IF action = "replace"
            THEN [d |-> sub_cost, op |-> <<"replace", i - 1, i, j - 1, j>>]
            ELSE IF action = "insert"
            THEN [d |-> ins_cost, op |-> <<"insert", i, i, j - 1, j>>]
            ELSE [d |-> del_cost, op |-> <<"delete", i - 1, i, j, j>>]

\* the backpointers followed from cell (x, y) to cell (0, 0), last opcode first
RECURSIVE backpointers(_, _, _, _)
backpointers(a, b, x, y) ==
    IF x = 0 /\ y = 0 THEN <<>>
    ELSE LET op == dp_cell(a, b, x, y).op
         IN IF op[1] \in {"equal", "replace"}
            THEN <<op>> \o backpointers(a, b, x - 1, y - 1)
            ELSE IF op[1] = "insert"
            THEN <<op>> \o backpointers(a, b, x, y - 1)
            ELSE <<op>> \o backpointers(a, b, x - 1, y)

Reverse(s) == [k \in 1..Len(s) |-> s[Len(s) + 1 - k]]

\* adjacent opcodes of one tag joined into one opcode over the union of their spans
RECURSIVE merge_adjacent(_)
merge_adjacent(ops) ==
    IF Len(ops) <= 1 THEN ops
    ELSE LET rest == merge_adjacent(Tail(ops))
             o == Head(ops)
             r == Head(rest)
         IN IF o[1] = r[1]
            THEN << <<o[1], o[2], r[3], o[4], r[5]>> >> \o Tail(rest)
            ELSE <<o>> \o rest

get_opcodes_merged(a, b) == merge_adjacent(Reverse(backpointers(a, b, Len(a), Len(b))))

get_opcodes_unreversed(a, b) == backpointers(a, b, Len(a), Len(b))

get_opcodes(a, b) == Reverse(backpointers(a, b, Len(a), Len(b)))

(***************************************************************************)
(* detect_word_error                                                       *)
(***************************************************************************)
Whitespace == {" "}

\* str.lower, one character
lower_char(c) == IF c = "A" THEN "a" ELSE IF c = "B" THEN "b" ELSE c

\* str.lower
lower(word) == [k \in 1..Len(word) |-> lower_char(word[k])]

\* str.split(): the maximal runs of characters that are not whitespace
RECURSIVE split_scan(_, _, _, _)
split_scan(line, k, word, words) ==
    IF k > Len(line)
    THEN IF word = <<>> THEN words ELSE Append(words, word)
    ELSE IF line[k] \in Whitespace
    THEN split_scan(line, k + 1, <<>>, IF word = <<>> THEN words ELSE Append(words, word))
    ELSE split_scan(line, k + 1, Append(word, line[k]), words)

split(line) == split_scan(line, 1, <<>>, <<>>)

\* the tokens left in the case they came in
fold_case_off(tokens, ci) == tokens

\* list(map(str.lower, tokens)) when case_insensitive
fold_case(tokens, ci) == IF ci THEN [k \in 1..Len(tokens) |-> lower(tokens[k])] ELSE tokens

\* the tables left as the last call filled them
keep_tables(t) == t

\* self.insertion_table = defaultdict(int), and the other two
reset_tables(t) == Tables(EmptyTable, EmptyTable, EmptyTable)

\* the flag ignored
is_dropped_any(drop, ref) == Len(ref) = 0

\* if remove_empty_refs and len(ref) == 0: return False
is_dropped(drop, ref) == drop /\ Len(ref) = 0

False == [kind |-> "False"]

None == [kind |-> "None"]

ObjectTables == Tables(insertion_table, deletion_table, substitution_table)

DetectWordError(rl, hl, ci, drop) ==
    LET fresh == reset_tables(ObjectTables)
        ref == fold_case(split(rl), ci)
        hyp == fold_case(split(hl), ci)
        dropped == is_dropped(drop, ref)
        ops == IF dropped THEN <<>> ELSE get_opcodes(ref, hyp)
        t == IF dropped THEN fresh ELSE track_confusions(fresh, ops, ref, hyp)
    IN /\ insertion_table' = t.insertion
       /\ deletion_table' = t.deletion
       /\ substitution_table' = t.substitution
       /\ result' = IF dropped THEN False ELSE get_confusions(t, min_count)
       /\ ref_line' = rl
       /\ hyp_line' = hl
       /\ case_insensitive' = ci
       /\ remove_empty_refs' = drop
       /\ seq1' = ref
       /\ seq2' = hyp
       /\ opcodes' = ops
       /\ pc' = "called"
       /\ dirty' = (ObjectTables # Tables(EmptyTable, EmptyTable, EmptyTable))
       /\ UNCHANGED min_count

(***************************************************************************)
(* The opcode lists a caller can hand to track_confusions: any chain of    *)
(* spans from (0, 0) to (m, n)                                             *)
(***************************************************************************)
SpansFrom(i, j, m, n) ==
    {<<"insert", i, i, j, j2>> : j2 \in (j + 1)..n}
    \cup {<<"delete", i, i2, j, j>> : i2 \in (i + 1)..m}
    \cup {<<"replace", i, x[1], j, x[2]>> : x \in ((i + 1)..m) \X ((j + 1)..n)}
    \cup {<<"equal", i, i + k, j, j + k>> : k \in 1..Min(m - i, n - j)}

RECURSIVE OpcodeLists(_, _, _, _)
OpcodeLists(i, j, m, n) ==
    IF i = m /\ j = n THEN {<<>>}
    ELSE UNION {{<<op>> \o rest : rest \in OpcodeLists(op[3], op[5], m, n)} :
                op \in SpansFrom(i, j, m, n)}

(***************************************************************************)
(* SpecTrack: track_confusions on fresh tables, for every opcode list      *)
(***************************************************************************)
NoCall ==
    /\ ref_line = <<>>
    /\ hyp_line = <<>>
    /\ case_insensitive = FALSE
    /\ remove_empty_refs = FALSE

InitTrack ==
    /\ insertion_table = EmptyTable
    /\ deletion_table = EmptyTable
    /\ substitution_table = EmptyTable
    /\ min_count = 0
    /\ result = None
    /\ NoCall
    /\ seq1 \in SeqsUpTo(RefWords, MaxSeqLen)
    /\ seq2 \in SeqsUpTo(HypWords, MaxSeqLen)
    /\ opcodes = <<>>
    /\ pc = "new"
    /\ dirty = FALSE

TrackConfusions(ops) ==
    /\ pc = "new"
    /\ LET t == track_confusions(ObjectTables, ops, seq1, seq2)
       IN /\ insertion_table' = t.insertion
          /\ deletion_table' = t.deletion
          /\ substitution_table' = t.substitution
    /\ opcodes' = ops
    /\ pc' = "tracked"
    /\ UNCHANGED <<min_count, result, ref_line, hyp_line, case_insensitive,
                   remove_empty_refs, seq1, seq2, dirty>>

NextTrack ==
    /\ pc = "new"
    /\ \E ops \in OpcodeLists(0, 0, Len(seq1), Len(seq2)) : TrackConfusions(ops)

SpecTrack == InitTrack /\ [][NextTrack]_vars

(***************************************************************************)
(* SpecReport: get_confusions on every state of the three tables           *)
(***************************************************************************)
Injective(t) == \A k, l \in 1..Len(t) : t[k].key = t[l].key => k = l

TablesOver(keys) ==
    {t \in SeqsUpTo([key : keys, count : 1..MaxCount], Cardinality(keys)) : Injective(t)}

InsertionKeys == {"a", "b"}

DeletionKeys == {"a"}

SubstitutionKeys == {<<"a", "b">>, <<"b", "a">>, <<"a", "c">>}

InitReport ==
    /\ insertion_table \in TablesOver(InsertionKeys)
    /\ deletion_table \in TablesOver(DeletionKeys)
    /\ substitution_table \in TablesOver(SubstitutionKeys)
    /\ min_count \in 0..MaxMinCount
    /\ result = None
    /\ NoCall
    /\ seq1 = <<>>
    /\ seq2 = <<>>
    /\ opcodes = <<>>
    /\ pc = "new"
    /\ dirty = FALSE

GetConfusions ==
    /\ pc = "new"
    /\ result' = get_confusions(ObjectTables, min_count)
    /\ pc' = "reported"
    /\ UNCHANGED <<insertion_table, deletion_table, substitution_table, min_count,
                   ref_line, hyp_line, case_insensitive, remove_empty_refs,
                   seq1, seq2, opcodes, dirty>>

NextReport == GetConfusions

SpecReport == InitReport /\ [][NextReport]_vars

(***************************************************************************)
(* Properties of track_confusions                                          *)
(***************************************************************************)
IsOp(o, tag) == opcodes[o][1] = tag

\* the (op, i, j) triples of Replace ops that pair reference word w1 with hypothesis word w2
ReplacePairs(w1, w2) ==
    {x \in (1..Len(opcodes)) \X (1..Len(seq1)) \X (1..Len(seq2)) :
        /\ IsOp(x[1], "replace")
        /\ opcodes[x[1]][2] < x[2] /\ x[2] <= opcodes[x[1]][3]
        /\ opcodes[x[1]][4] < x[3] /\ x[3] <= opcodes[x[1]][5]
        /\ seq1[x[2]] = w1
        /\ seq2[x[3]] = w2}

\* the (op, k) pairs of Insert ops whose hypothesis range holds w at k
InsertedAt(w) ==
    {x \in (1..Len(opcodes)) \X (1..Len(seq2)) :
        /\ IsOp(x[1], "insert")
        /\ opcodes[x[1]][4] < x[2] /\ x[2] <= opcodes[x[1]][5]
        /\ seq2[x[2]] = w}

\* the (op, k) pairs of Delete ops whose reference range holds w at k
DeletedAt(w) ==
    {x \in (1..Len(opcodes)) \X (1..Len(seq1)) :
        /\ IsOp(x[1], "delete")
        /\ opcodes[x[1]][2] < x[2] /\ x[2] <= opcodes[x[1]][3]
        /\ seq1[x[2]] = w}

NoZeroItem(t) == \A k \in 1..Len(t) : t[k].count >= 1

Keys(t) == {t[k].key : k \in 1..Len(t)}

OnlyTag(tag) == \A o \in 1..Len(opcodes) : IsOp(o, tag)

NotReplace(op) == op[1] # "replace"

NotMatch(op) == op[1] # "equal"

NoTables == Tables(EmptyTable, EmptyTable, EmptyTable)

\* C1: after track_confusions on fresh tables, the substitution count of every
\* pair (w1, w2) is the number of (Replace op, reference index, hypothesis index)
\* triples pairing w1 with w2 (the full cross product of the two spans), and the
\* insertion and deletion tables are those of the opcodes without the Replace ops
\* (empty when every opcode is a Replace).
C1_ReplaceCrossProduct ==
    pc = "tracked" =>
        /\ \A w1 \in RefWords, w2 \in HypWords :
               Count(substitution_table, <<w1, w2>>) = Cardinality(ReplacePairs(w1, w2))
        /\ Keys(substitution_table) \subseteq Range(seq1) \X Range(seq2)
        /\ Injective(substitution_table) /\ NoZeroItem(substitution_table)
        /\ LET t == track_confusions(NoTables, SelectSeq(opcodes, NotReplace), seq1, seq2)
           IN insertion_table = t.insertion /\ deletion_table = t.deletion
        /\ OnlyTag("replace") => insertion_table = EmptyTable /\ deletion_table = EmptyTable

C1_Witness ==
    /\ pc = "tracked"
    /\ seq1 = <<"a", "b">>
    /\ seq2 = <<"c", "d">>
    /\ opcodes = << <<"replace", 0, 2, 0, 2>> >>
    /\ Len(substitution_table) = 4
    /\ \A p \in {"a", "b"} \X {"c", "d"} : Count(substitution_table, p) = 1

\* C2: after track_confusions on fresh tables, the insertion count of every word
\* is the number of positions of Insert ops' hypothesis ranges holding it, the
\* deletion count of every word is the number of positions of Delete ops'
\* reference ranges holding it, and the three tables are those of the opcodes
\* without the Match ops (empty when every opcode is a Match).
C2_InsertDeleteCounts ==
    pc = "tracked" =>
        /\ \A w \in HypWords : Count(insertion_table, w) = Cardinality(InsertedAt(w))
        /\ \A w \in RefWords : Count(deletion_table, w) = Cardinality(DeletedAt(w))
        /\ Keys(insertion_table) \subseteq Range(seq2)
        /\ Keys(deletion_table) \subseteq Range(seq1)
        /\ Injective(insertion_table) /\ NoZeroItem(insertion_table)
        /\ Injective(deletion_table) /\ NoZeroItem(deletion_table)
        /\ ObjectTables = track_confusions(NoTables, SelectSeq(opcodes, NotMatch), seq1, seq2)
        /\ OnlyTag("equal") => ObjectTables = NoTables

C2_Witness ==
    /\ pc = "tracked"
    /\ seq1 = <<"a", "b">>
    /\ seq2 = <<"a", "c">>
    /\ opcodes = << <<"equal", 0, 1, 0, 1>>, <<"delete", 1, 2, 1, 1>>, <<"insert", 2, 2, 1, 2>> >>
    /\ insertion_table = << [key |-> "c", count |-> 1] >>
    /\ deletion_table = << [key |-> "b", count |-> 1] >>
    /\ substitution_table = EmptyTable

(***************************************************************************)
(* Properties of get_confusions                                            *)
(***************************************************************************)
NonIncreasing(list) == \A k, l \in 1..Len(list) : k < l => list[k].count >= list[l].count

\* `list` holds exactly one entry for each item of `table` with count >= minc
ExactlyKept(list, table, entry(_), minc) ==
    /\ Range(list) = {entry(table[k]) : k \in {l \in 1..Len(table) : table[l].count >= minc}}
    /\ Len(list) = Cardinality({l \in 1..Len(table) : table[l].count >= minc})

ReportOk(r, minc) ==
    /\ ExactlyKept(r.insertion, insertion_table, word_entry, minc)
    /\ ExactlyKept(r.deletion, deletion_table, word_entry, minc)
    /\ ExactlyKept(r.substitution, substitution_table, pair_entry, minc)
    /\ NonIncreasing(r.insertion)
    /\ NonIncreasing(r.deletion)
    /\ NonIncreasing(r.substitution)

Subreport(r2, r1) ==
    /\ Range(r2.insertion) \subseteq Range(r1.insertion)
    /\ Range(r2.deletion) \subseteq Range(r1.deletion)
    /\ Range(r2.substitution) \subseteq Range(r1.substitution)

\* C5: each list of the report holds exactly one entry per table item with
\* count >= min_count and nothing else, in non-increasing order of count; the
\* report at a higher threshold is contained in the report at a lower one; an
\* empty table gives an empty list.
C5_ReportFilterSort ==
    /\ pc = "reported" =>
           /\ result.kind = "dict"
           /\ ReportOk(result, min_count)
           /\ insertion_table = EmptyTable => result.insertion = <<>>
           /\ deletion_table = EmptyTable => result.deletion = <<>>
           /\ substitution_table = EmptyTable => result.substitution = <<>>
    /\ \A m1, m2 \in 0..(MaxMinCount + 1) :
           m1 < m2 => Subreport(get_confusions(ObjectTables, m2),
                                get_confusions(ObjectTables, m1))

C5_Witness ==
    /\ pc = "reported"
    /\ min_count = 2
    /\ substitution_table = << [key |-> <<"a", "b">>, count |-> 1],
                               [key |-> <<"b", "a">>, count |-> 2],
                               [key |-> <<"a", "c">>, count |-> 2] >>
    /\ result.substitution =
           << [word_reference |-> "b", word_substitution |-> "a", count |-> 2],
              [word_reference |-> "a", word_substitution |-> "c", count |-> 2] >>
    /\ insertion_table = EmptyTable
    /\ result.insertion = <<>>
    /\ deletion_table = << [key |-> "a", count |-> 1] >>
    /\ result.deletion = <<>>

(***************************************************************************)
(* SpecAlign: get_opcodes on every pair of token lists                     *)
(***************************************************************************)
AlignWords == {"a", "b", "c"}

InitAlign ==
    /\ insertion_table = EmptyTable
    /\ deletion_table = EmptyTable
    /\ substitution_table = EmptyTable
    /\ min_count = 0
    /\ result = None
    /\ NoCall
    /\ seq1 \in SeqsUpTo(AlignWords, MaxAlignLen)
    /\ seq2 \in SeqsUpTo(AlignWords, MaxAlignLen)
    /\ opcodes = <<>>
    /\ pc = "new"
    /\ dirty = FALSE

GetOpcodes ==
    /\ pc = "new"
    /\ opcodes' = get_opcodes(seq1, seq2)
    /\ pc' = "aligned"
    /\ UNCHANGED <<insertion_table, deletion_table, substitution_table, min_count,
                   result, ref_line, hyp_line, case_insensitive, remove_empty_refs,
                   seq1, seq2, dirty>>

NextAlign == GetOpcodes

SpecAlign == InitAlign /\ [][NextAlign]_vars

(***************************************************************************)
(* Spec: one evaluator called again and again; SpecEvaluate: one call on   *)
(* every pair of lines                                                     *)
(***************************************************************************)
\* the characters of the lines: of either line of the repeated calls, of the
\* reference line and of the hypothesis line of the single call
CallChars == {"A", "a", " "}

RefChars == {"A", "B", "a", " "}

HypChars == {"a", "b", " "}

Init ==
    /\ insertion_table = EmptyTable
    /\ deletion_table = EmptyTable
    /\ substitution_table = EmptyTable
    /\ min_count = 0
    /\ result = None
    /\ NoCall
    /\ seq1 = <<>>
    /\ seq2 = <<>>
    /\ opcodes = <<>>
    /\ pc = "new"
    /\ dirty = FALSE

Next ==
    \E rl \in SeqsUpTo(CallChars, MaxCallLen), hl \in SeqsUpTo(CallChars, MaxCallLen),
       ci \in BOOLEAN, drop \in BOOLEAN :
        DetectWordError(rl, hl, ci, drop)

Spec == Init /\ [][Next]_vars

NextEvaluate ==
    /\ pc = "new"
    /\ \E rl \in SeqsUpTo(RefChars, MaxLineLen), hl \in SeqsUpTo(HypChars, MaxLineLen),
          ci \in BOOLEAN, drop \in BOOLEAN :
           DetectWordError(rl, hl, ci, drop)

SpecEvaluate == Init /\ [][NextEvaluate]_vars

(***************************************************************************)
(* Properties of the opcodes                                               *)
(***************************************************************************)
\* the opcodes chain from (0, 0) to (len(seq1), len(seq2))
Chained ==
    IF opcodes = <<>> THEN seq1 = <<>> /\ seq2 = <<>>
    ELSE /\ opcodes[1][2] = 0 /\ opcodes[1][4] = 0
         /\ \A k \in 1..(Len(opcodes) - 1) :
                opcodes[k + 1][2] = opcodes[k][3] /\ opcodes[k + 1][4] = opcodes[k][5]
         /\ opcodes[Len(opcodes)][3] = Len(seq1)
         /\ opcodes[Len(opcodes)][5] = Len(seq2)

\* the ranges of an opcode are those of its tag
Shaped(op) ==
    /\ op[1] \in {"equal", "insert", "delete", "replace"}
    /\ op[1] = "equal" =>
           /\ op[3] - op[2] = op[5] - op[4]
           /\ op[3] > op[2]
           /\ \A t \in 1..(op[3] - op[2]) : seq1[op[2] + t] = seq2[op[4] + t]
    /\ op[1] = "insert" => op[2] = op[3] /\ op[5] > op[4]
    /\ op[1] = "delete" => op[4] = op[5] /\ op[3] > op[2]
    /\ op[1] = "replace" => op[3] > op[2] /\ op[5] > op[4]

TagsUsed == {opcodes[k][1] : k \in 1..Len(opcodes)}

NoAdjacentSameTag == \A k \in 1..(Len(opcodes) - 1) : opcodes[k][1] # opcodes[k + 1][1]

OpCost(op) ==
    IF op[1] = "insert" THEN op[5] - op[4]
    ELSE IF op[1] = "delete" THEN op[3] - op[2]
    ELSE IF op[1] = "replace" THEN Max(op[3] - op[2], op[5] - op[4])
    ELSE 0

RECURSIVE TotalCost(_)
TotalCost(ops) == IF ops = <<>> THEN 0 ELSE OpCost(Head(ops)) + TotalCost(Tail(ops))

\* the edit distance under unit insertion, deletion and substitution cost
RECURSIVE EditDistance(_, _)
EditDistance(a, b) ==
    IF a = <<>> THEN Len(b)
    ELSE IF b = <<>> THEN Len(a)
    ELSE Min(Min(EditDistance(Tail(a), b) + 1, EditDistance(a, Tail(b)) + 1),
             EditDistance(Tail(a), Tail(b)) + (IF Head(a) = Head(b) THEN 0 ELSE 1))

\* C9: the total cost of the opcodes is the minimum edit distance of ref and hyp.
C9_MinimalCost ==
    pc = "aligned" => TotalCost(opcodes) = EditDistance(seq1, seq2)

C9_Witness ==
    /\ pc = "aligned"
    /\ seq1 = <<"a", "b", "c">>
    /\ seq2 = <<"b", "c", "a">>
    /\ TotalCost(opcodes) = 2
    /\ EditDistance(seq1, seq2) = 2

(***************************************************************************)
(* Properties of detect_word_error                                         *)
(***************************************************************************)
Blank(line) == \A k \in 1..Len(line) : line[k] \in Whitespace

Occurrences(w, tokens) == Cardinality({k \in 1..Len(tokens) : tokens[k] = w})

EmptyReport == [kind |-> "dict", insertion |-> <<>>, deletion |-> <<>>, substitution |-> <<>>]

\* C3: the call returns False exactly when remove_empty_refs is set and the
\* reference line holds no token; otherwise it returns the three lists, which for
\* a reference without tokens are the words of the hypothesis as insertions and
\* nothing else, and for two lines without tokens are three empty lists.
C3_SkippedIffDroppedEmptyRef ==
    pc = "called" =>
        /\ result.kind = "False" <=> (remove_empty_refs /\ Blank(ref_line))
        /\ result.kind # "False" =>
               /\ result.kind = "dict"
               /\ DOMAIN result = {"kind", "insertion", "deletion", "substitution"}
        /\ Blank(ref_line) /\ ~remove_empty_refs =>
               /\ Range(result.insertion) =
                      {[word |-> w, count |-> Occurrences(w, seq2)] : w \in Range(seq2)}
               /\ Len(result.insertion) = Cardinality(Range(seq2))
               /\ result.deletion = <<>>
               /\ result.substitution = <<>>
        /\ Blank(ref_line) /\ ~remove_empty_refs /\ hyp_line = <<"a", " ", "b">> =>
               result.insertion = << [word |-> <<"a">>, count |-> 1],
                                     [word |-> <<"b">>, count |-> 1] >>
        /\ Blank(ref_line) /\ Blank(hyp_line) /\ ~remove_empty_refs =>
               result = EmptyReport /\ result # False

C3_Witness ==
    /\ pc = "called"
    /\ ref_line = <<>>
    /\ hyp_line = <<"a", " ", "b">>
    /\ ~remove_empty_refs
    /\ result.kind = "dict"
    /\ result.insertion = << [word |-> <<"a">>, count |-> 1], [word |-> <<"b">>, count |-> 1] >>

lower_line(line) == [k \in 1..Len(line) |-> lower_char(line[k])]

IsLower(tokens) == \A k \in 1..Len(tokens) : \A c \in 1..Len(tokens[k]) : tokens[k][c] \notin {"A", "B"}

ExpectedTables(rl, hl, ci, drop) ==
    LET ref == fold_case(split(rl), ci)
        hyp == fold_case(split(hl), ci)
        empty == Tables(EmptyTable, EmptyTable, EmptyTable)
    IN IF drop /\ ref = <<>> THEN empty
       ELSE track_confusions(empty, get_opcodes(ref, hyp), ref, hyp)

ExpectedResult(rl, hl, ci, drop, minc) ==
    IF drop /\ fold_case(split(rl), ci) = <<>> THEN False
    ELSE get_confusions(ExpectedTables(rl, hl, ci, drop), minc)

\* C4: whatever the earlier calls on the evaluator were, the tables after a call
\* and the value it returns are those of the same call on a new evaluator: they
\* depend on the call's lines and options alone.
C4_NoCrossCallState ==
    pc = "called" =>
        /\ ObjectTables = ExpectedTables(ref_line, hyp_line, case_insensitive, remove_empty_refs)
        /\ result = ExpectedResult(ref_line, hyp_line, case_insensitive, remove_empty_refs, min_count)

C4_Witness ==
    /\ pc = "called"
    /\ dirty
    /\ ref_line = <<"A">>
    /\ hyp_line = <<>>
    /\ ~remove_empty_refs
    /\ ~case_insensitive
    /\ result = [kind |-> "dict", insertion |-> <<>>,
                 deletion |-> << [word |-> <<"A">>, count |-> 1] >>, substitution |-> <<>>]

\* C10 as the specification states it: a call that returns False leaves the three
\* tables as they were before it.
C10_SkippedCallIsNoOp ==
    [][result'.kind = "False" => ObjectTables' = ObjectTables]_vars

\* C10, amended: a call that returns False has neither aligned nor tracked, but it
\* has reset the tables: they are empty after it, whatever the call before it left
\* in them, and the report read from them is three empty lists.
C10_SkippedCallResetsTables ==
    result.kind = "False" =>
        /\ remove_empty_refs /\ seq1 = <<>>
        /\ opcodes = <<>>
        /\ ObjectTables = Tables(EmptyTable, EmptyTable, EmptyTable)
        /\ get_confusions(ObjectTables, min_count) = EmptyReport

C10_Witness ==
    /\ result.kind = "False"
    /\ dirty
    /\ remove_empty_refs
    /\ ref_line = <<" ">>
    /\ ObjectTables = Tables(EmptyTable, EmptyTable, EmptyTable)

====
